---- MODULE Spec2Model ----
(***************************************************************************)
(* A model of the filler bot of src/bots/filler.ts: the cycle entry point  *)
(* tryFill with its two mutexes, the transaction packer tryBulkFillNodes,  *)
(* and the log reconciliation processBulkFillTxLogs.                       *)
(*                                                                         *)
(* Three specifications share the pure operators below:                    *)
(*   SpecPack   the packer loop on sequences of candidates;                *)
(*   SpecRecon  the walk of a transaction's log messages;                  *)
(*   Spec       concurrent invocations of tryFill.                         *)
(***************************************************************************)
EXTENDS Integers, Sequences, FiniteSets, TLC

\* ------------------------------------------------------------------ bounds
\* Longest sequence of candidates offered to the packer in SpecPack.
MaxOffered == 4
\* Largest batch reconciled, and longest transaction log, in SpecRecon.
MaxBatch == 3
MaxLog == 6
\* Invocations of tryFill, markets, and the last clock value, in Spec.
MaxInv == 2
NumMarkets == 2
MaxTime == 1
\* Largest backoff window and last clock value in SpecThrottle.
MaxWindow == 2
MaxClock == 3
MaxLookUps == 3
\* SpecSize: the lengths 0..MaxSmallLen, besides those around the steps.
MaxSmallLen == 20
\* Calls of tryFillNode beside the MaxInv invocations of tryFill, in SpecNode.
MaxCalls == 1

\* ------------------------------------------------------- program constants
maxTxSize == 1000
FILL_ORDER_BACKOFF == 0
MaxFetchAttempts == 10
FetchDelay == 1000

\* ComputeBudgetProgram.requestUnits: no account keys, 9 bytes of data
\* (u8 discriminator, u32 units, u32 additionalFee).
computeBudgetIx ==
    [keys |-> <<>>, programId |-> <<"program", 1>>, dataLen |-> 9]

\* Account keys are pairs <<kind, number>>.
Key(k) == <<"acct", k>>
walletPublicKey == <<"wallet", 0>>
driftProgramId == <<"program", 0>>

\* ------------------------------------------------------------ size rules
\* calcCompactU16EncodedSize(array, elemSize), on the array's length.
calcCompactU16EncodedSize(len, elemSize) ==
    IF len > 16383 THEN 3 + len * elemSize
    ELSE IF len > 127 THEN 2 + len * elemSize
    ELSE 1 + (IF len * elemSize = 0 THEN 1 ELSE len * elemSize)

\* calcIxEncodedSize(ix)
calcIxEncodedSize(ix) ==
    1 + calcCompactU16EncodedSize(Len(ix.keys), 1)
      + calcCompactU16EncodedSize(ix.dataLen, 1)

\* Array.prototype.filter on a sequence of account keys: the keys not yet in
\* uniqueAccounts, in order, duplicates kept.
RECURSIVE FilterNew(_, _)
FilterNew(keys, uniqueAccounts) ==
    IF keys = <<>> THEN <<>>
    ELSE LET rest == FilterNew(Tail(keys), uniqueAccounts)
         IN  IF Head(keys) \in uniqueAccounts THEN rest
             ELSE <<Head(keys)>> \o rest

SeqRange(s) == {s[k] : k \in DOMAIN s}

\* The state of the packer before its loop: the fee payer, the compute
\* budget instruction's keys and program, and the barebones transaction.
InitialUniqueAccounts ==
    {walletPublicKey} \cup SeqRange(computeBudgetIx.keys)
                      \cup {computeBudgetIx.programId}

InitialTxSize ==
    calcCompactU16EncodedSize(1, 64) + 3
      + calcCompactU16EncodedSize(Cardinality(InitialUniqueAccounts), 32)
      + 32 + calcIxEncodedSize(computeBudgetIx)

PackerInit ==
    [runningTxSize |-> InitialTxSize,
     uniqueAccounts |-> InitialUniqueAccounts,
     nodesSent |-> <<>>,
     idxUsed |-> 0,
     stopped |-> FALSE]

\* newAccounts of one instruction against the accounts gathered so far.
NewAccounts(ix, uniqueAccounts) ==
    FilterNew(ix.keys \o <<ix.programId>>, uniqueAccounts)

AdditionalAccountsCost(newAccounts) ==
    IF Len(newAccounts) > 0
    THEN calcCompactU16EncodedSize(Len(newAccounts), 32) - 1
    ELSE 0

\* Mutant of the loop's test: a batch of exactly maxTxSize is let through.
PackerOverflowsAboveOnly(runningTxSize, newIxCost, additionalAccountsCost) ==
    runningTxSize + newIxCost + additionalAccountsCost > maxTxSize

\* The loop's test: the candidate does not fit, the loop breaks.
PackerOverflows(runningTxSize, newIxCost, additionalAccountsCost) ==
    runningTxSize + newIxCost + additionalAccountsCost >= maxTxSize

\* Mutant of the break: skip the candidate and go on with the next one.
PackerSkipOnOverflow(pk) == pk

\* What the loop does on the candidate that does not fit: break.
PackerOnOverflow(pk) == [pk EXCEPT !.stopped = TRUE]

\* One iteration of the packer's loop on candidate node, whose fill
\* instruction is node.ix.
PackOne(pk, node) ==
    LET newAccounts == NewAccounts(node.ix, pk.uniqueAccounts)
        newIxCost == calcIxEncodedSize(node.ix)
        additionalAccountsCost == AdditionalAccountsCost(newAccounts)
    IN  IF PackerOverflows(pk.runningTxSize, newIxCost, additionalAccountsCost)
        THEN PackerOnOverflow(pk)
        ELSE [pk EXCEPT
                !.runningTxSize = @ + newIxCost + additionalAccountsCost,
                !.uniqueAccounts = @ \cup SeqRange(newAccounts),
                !.idxUsed = @ + 1,
                !.nodesSent = Append(@, node)]

\* ------------------------------------------------------------------ nodes
\* A NodeToFill as the bot reads it: the taker's account (NoUser when the
\* node has none), its order id and market, the flags the filter reads, and
\* the fill instruction getFillOrderIx builds for it.
User(k) == <<"user", k>>
NoUser == <<"none", 0>>

MkNode(userAccount, orderId, marketIndex, ix) ==
    [userAccount |-> userAccount, orderId |-> orderId,
     marketIndex |-> marketIndex, isVammNode |-> FALSE, haveFilled |-> FALSE,
     hasMaker |-> TRUE, fillableByVAMM |-> FALSE, ix |-> ix]

FillIx(keys, dataLen) ==
    [keys |-> keys, programId |-> driftProgramId, dataLen |-> dataLen]

\* The candidates offered to the packer in SpecPack: two instructions with
\* eleven accounts of their own each, one that only names accounts of the
\* first, and one that names the same new account twice.
PackPool ==
    { MkNode(User(1), 1, 1, FillIx([k \in 1..11 |-> Key(k)], 29)),
      MkNode(User(2), 2, 1, FillIx([k \in 1..11 |-> Key(20 + k)], 29)),
      MkNode(User(3), 3, 1, FillIx(<<Key(1), Key(2)>>, 10)),
      MkNode(User(4), 4, 1, FillIx(<<Key(51), Key(51)>>, 18)) }

SeqsUpTo(S, n) == UNION {[1..m -> S] : m \in 0..n}

\* Mutant: userAccount.toString() returns for a node without userAccount.
HasUserAccountAlways(node) == TRUE

\* node.userAccount is there, so that node.userAccount.toString(), which
\* the bot evaluates when it logs a node or looks its user up, returns; on
\* a node without userAccount it throws a TypeError.
HasUserAccount(node) == node.userAccount # NoUser

\* getNodeToFillSignature(node): the key of the node in throttledNodes.
getNodeToFillSignature(node) ==
    IF node.userAccount = NoUser THEN <<"~">>
    ELSE <<node.userAccount, node.orderId>>

\* --------------------------------------------------------------- log lines
\* A log message: its text, its length, and which of the phrases the bot
\* searches for it contains; NullLog is a null entry of logMessages.
LogLine(text, len, has) == [null |-> FALSE, text |-> text, len |-> len, has |-> has]
NullLog == [null |-> TRUE, text |-> "", len |-> 0, has |-> {}]
FillOrderLog == LogLine("Program log: Instruction: FillOrder", 35, {})
OrderDoesNotExistLog ==
    LogLine("Program log: Order does not exist", 33, {"Order does not exist"})
AmmCantFulfillLog ==
    LogLine("Program log: Amm cant fulfill order", 35, {"Amm cant fulfill order"})
EventDataLog == LogLine("Program data: <60 characters of event data>", 60, {})
ShortLog == LogLine("Program log: ok", 15, {})

OutcomePool ==
    {OrderDoesNotExistLog, AmmCantFulfillLog, EventDataLog, ShortLog}
LinePool == OutcomePool \cup {NullLog, FillOrderLog}

\* isLogFillOrder(log)
isLogFillOrder(log) == log.text = "Program log: Instruction: FillOrder"

\* log.includes(phrase)
Includes(log, phrase) == phrase \in log.has

\* The walk's locals before the loop over tx.meta.logMessages.
WalkInit == [nextIsFillRecord |-> FALSE, ixIdx |-> -1, successCount |-> 0]

\* Which branch of the loop body a log line takes.
LogBranch(w, log) ==
    IF log.null THEN "null"
    ELSE IF w.nextIsFillRecord
    THEN IF Includes(log, "Order does not exist") THEN "remove"
         ELSE IF Includes(log, "Amm cant fulfill order") THEN "throttle"
         ELSE IF log.len > 50 THEN "success"
         ELSE "unparsed"
    ELSE IF isLogFillOrder(log) THEN "marker"
    ELSE "skip"

\* The index the walk gives a fill marker: the next instruction.
NextIxIdx(ixIdx) == ixIdx + 1

\* The walk's locals after a null line: it is logged and the loop goes on
\* (continue), with the locals as they were.
OnNullLine(w) == w

\* The walk's locals after the loop body has run on a log line.
WalkLine(w, log) ==
    LET b == LogBranch(w, log)
    IN  CASE b = "null" -> OnNullLine(w)
          [] b = "marker" ->
               [w EXCEPT !.nextIsFillRecord = TRUE, !.ixIdx = NextIxIdx(@)]
          [] b = "skip" -> w
          [] b = "success" ->
               [w EXCEPT !.successCount = @ + 1, !.nextIsFillRecord = FALSE]
          [] OTHER -> [w EXCEPT !.nextIsFillRecord = FALSE]

\* nodesFilled[ixIdx], arrays being 0-based in the program; it is undefined
\* when ixIdx is out of the array.
IsDefinedAt(nodesFilled, ixIdx) == ixIdx + 1 \in DOMAIN nodesFilled
FilledNode(nodesFilled, ixIdx) == nodesFilled[ixIdx + 1]

\* The removal and the throttle branch log filledNode.node.userAccount
\* .toString() first: it returns when the node is defined and has a
\* userAccount, and throws a TypeError otherwise.
LogsFilledNode(nodesFilled, ixIdx) ==
    /\ IsDefinedAt(nodesFilled, ixIdx)
    /\ HasUserAccount(FilledNode(nodesFilled, ixIdx))

\* The nodes reconciled in SpecRecon.
ReconNode(k) == MkNode(User(k), k, 1, FillIx(<<Key(k)>>, 18))

\* -------------------------------------------------------- throttle registry
\* throttledNodes is a function from the signatures it holds to timestamps.
ThrottleSet(throttled, sig, t) ==
    [s \in DOMAIN throttled \cup {sig} |-> IF s = sig THEN t ELSE throttled[s]]

ThrottleDelete(throttled, sig) ==
    [s \in DOMAIN throttled \ {sig} |-> throttled[s]]

EmptyThrottle == [s \in {} |-> 0]

\* Mutant of the filter: an entry still blocks at the end of its window.
FilterOneInclusive(node, throttled, t, window) ==
    LET sig == getNodeToFillSignature(node)
        backingOff == sig \in DOMAIN throttled
                        /\ throttled[sig] + window >= t
        after == IF sig \in DOMAIN throttled /\ ~backingOff
                 THEN ThrottleDelete(throttled, sig) ELSE throttled
    IN  IF node.isVammNode \/ node.haveFilled
        THEN [keep |-> FALSE, throttled |-> throttled]
        ELSE IF backingOff THEN [keep |-> FALSE, throttled |-> throttled]
        ELSE IF ~node.hasMaker /\ ~node.fillableByVAMM
        THEN [keep |-> FALSE, throttled |-> after]
        ELSE [keep |-> TRUE, throttled |-> after]

\* filterFillableNodes(node) at time t, with the backoff window as a
\* parameter: whether the node is kept, and throttledNodes after the call
\* (an expired entry is deleted).
FilterOneWith(node, throttled, t, window) ==
    LET sig == getNodeToFillSignature(node)
        backingOff == sig \in DOMAIN throttled
                        /\ throttled[sig] + window > t
        after == IF sig \in DOMAIN throttled /\ ~backingOff
                 THEN ThrottleDelete(throttled, sig) ELSE throttled
    IN  IF node.isVammNode \/ node.haveFilled
        THEN [keep |-> FALSE, throttled |-> throttled]
        ELSE IF backingOff THEN [keep |-> FALSE, throttled |-> throttled]
        ELSE IF ~node.hasMaker /\ ~node.fillableByVAMM
        THEN [keep |-> FALSE, throttled |-> after]
        ELSE [keep |-> TRUE, throttled |-> after]

\* filterFillableNodes(node) at time t, with the window of the build.
FilterOne(node, throttled, t) ==
    FilterOneWith(node, throttled, t, FILL_ORDER_BACKOFF)

\* fillableNodes.filter(filterFillableNodes): the nodes kept, in order, and
\* throttledNodes after the last call.
RECURSIVE FilterNodes(_, _, _)
FilterNodes(nodes, throttled, t) ==
    IF nodes = <<>> THEN [kept |-> <<>>, throttled |-> throttled]
    ELSE LET one == FilterOne(Head(nodes), throttled, t)
             rest == FilterNodes(Tail(nodes), one.throttled, t)
         IN  [kept |-> (IF one.keep THEN <<Head(nodes)>> ELSE <<>>) \o rest.kept,
              throttled |-> rest.throttled]

\* The synchronous run of the log loop from position pos: it goes on to the
\* end of the log ("end"), to a removal, which awaits the snapshot gate
\* ("remove"), or to a node that is undefined ("throw").
RECURSIVE WalkSync(_, _, _, _, _, _)
WalkSync(w, pos, log, nodes, throttled, t) ==
    IF pos > Len(log)
    THEN [w |-> w, pos |-> pos, throttled |-> throttled, stop |-> "end"]
    ELSE LET b == LogBranch(w, log[pos])
         IN  IF b \in {"remove", "throttle"} /\ ~LogsFilledNode(nodes, w.ixIdx)
             THEN [w |-> w, pos |-> pos, throttled |-> throttled, stop |-> "throw"]
             ELSE IF b = "remove"
             THEN [w |-> w, pos |-> pos, throttled |-> throttled, stop |-> "remove"]
             ELSE WalkSync(WalkLine(w, log[pos]), pos + 1, log, nodes,
                           IF b = "throttle"
                           THEN ThrottleSet(throttled,
                                  getNodeToFillSignature(FilledNode(nodes, w.ixIdx)), t)
                           ELSE throttled,
                           t)

\* ---------------------------------------------------------------- snapshot
\* The order book: the instance number of the DLOB object and the nodes it
\* holds. new DLOB(...) is an empty instance; init fills it.
NewDlob(old) == [gen |-> old.gen + 1, orders |-> {}]

\* dlob.findNodesToFill(marketIndex, ...): the nodes of the market, by order id.
RECURSIVE SortByOrderId(_)
SortByOrderId(S) ==
    IF S = {} THEN <<>>
    ELSE LET first == CHOOSE n \in S : \A m \in S : n.orderId <= m.orderId
         IN  <<first>> \o SortByOrderId(S \ {first})

FindNodesToFill(book, marketIndex) ==
    SortByOrderId({n \in book.orders : n.marketIndex = marketIndex})

\* dlob.remove(order, userAccount, cb)
DlobRemove(book, node) ==
    [book EXCEPT !.orders =
        {n \in @ : ~(n.orderId = node.orderId /\ n.userAccount = node.userAccount)}]

\* The nodes dlob.init may find: an order in each market, the first order
\* again with no maker and not fillable by the vAMM, and a node that has
\* no userAccount.
OrderPool ==
    { MkNode(User(1), 1, 1, FillIx(<<Key(1), Key(2)>>, 18)),
      MkNode(User(2), 2, 2, FillIx(<<Key(2), Key(3)>>, 18)),
      [MkNode(User(1), 1, 1, FillIx(<<Key(1), Key(2)>>, 18))
          EXCEPT !.hasMaker = FALSE],
      MkNode(NoUser, 3, 1, FillIx(<<Key(4)>>, 18)) }

\* The contents dlob.init may give the snapshot: an order is in it once.
Snapshots ==
    { S \in SUBSET OrderPool :
        \A a, b \in S :
           (a.userAccount = b.userAccount /\ a.orderId = b.orderId) => a = b }

\* -------------------------------------------------------------- variables
VARIABLES
    offered,    \* SpecPack: nodesToFill, the candidates offered to the packer
    pidx,       \* SpecPack: position of the loop in offered
    pk,         \* SpecPack: the packer's running state
    pphase,     \* SpecPack: the await tryBulkFillNodes is at, or how it ended
    rnodes,     \* SpecRecon: nodesFilled
    rlog,       \* SpecRecon: tx.meta.logMessages
    rpos,       \* SpecRecon: position of the loop in rlog
    rw,         \* SpecRecon: nextIsFillRecord, ixIdx, successCount
    rremovals,  \* SpecRecon: the nodes dlob.remove was called for, in order
    rthrottles, \* SpecRecon: the signatures set in throttledNodes, in order
    rphase,     \* SpecRecon: where the log loop is, or how it ended
    rtx,        \* SpecBatch: tx of the fetch loop: "null" or "tx"
    rattempts,  \* SpecBatch: attempts of the fetch loop
    rslept,     \* SpecBatch: the milliseconds the fetch loop has slept
    rreported,  \* the counts passed to metrics.recordFilledOrder, in order
    pc,                 \* Spec: where each invocation's body is
    outcome,            \* Spec: how tryFill ended: "none", "returned", "raised"
    inv,                \* Spec: each invocation's locals
    periodicTaskMutex,  \* Spec: the cycle gate is locked
    dlobMutex,          \* Spec: the snapshot gate is locked
    dlob,               \* Spec: this.dlob
    throttledNodes,     \* Spec: this.throttledNodes
    now,                \* Spec: Date.now()
    mutexBusyCount,     \* Spec: calls of metrics.recordMutexBusy
    backoff,    \* SpecThrottle: the backoff window the filter adds
    attemptAt,  \* SpecThrottle: when the last attempt was recorded, or -1
    verdict,    \* SpecThrottle: what the last call of the filter returned
    arrLen,     \* SpecSize: array.length
    elemSize,   \* SpecSize: elemSize
    encoded,    \* SpecSize: the size returned, or -1 before the call
    dryRun,     \* SpecNode: this.dryRun
    npc,        \* SpecNode: where each call of tryFillNode is
    nloc,       \* SpecNode: each call's node and what the call did
    nheap       \* SpecNode: the node objects as they are now

packVars == <<offered, pidx, pk, pphase>>
reconVars == <<rnodes, rlog, rpos, rw, rremovals, rthrottles, rphase,
              rtx, rattempts, rslept, rreported>>
cycleVars == <<pc, outcome, inv, periodicTaskMutex, dlobMutex, dlob,
               throttledNodes, now, mutexBusyCount>>
throttleVars == <<backoff, attemptAt, verdict>>
sizeVars == <<arrLen, elemSize, encoded>>
nodeVars == <<dryRun, npc, nloc, nheap>>
sideVars == <<throttleVars, sizeVars, nodeVars>>
vars == <<packVars, reconVars, cycleVars, sideVars>>

Inv == 1..MaxInv
Markets == 1..NumMarkets

\* The locals of an invocation of tryFill and of the calls it makes.
InvInit ==
    [market |-> 1,              \* the market the selection loop is at
     fillableNodes |-> <<>>,
     filteredNodes |-> <<>>,
     filtered |-> FALSE,        \* the filter has run
     pidx |-> 1,                \* the packer's position in filteredNodes
     pk |-> PackerInit,
     sent |-> FALSE,            \* txSender.send was called
     tx |-> "null",             \* tx of the fetch loop: "null" or "tx"
     attempts |-> 0,            \* attempts of the fetch loop
     wpos |-> 1,                \* the log loop's position in the log
     w |-> WalkInit,
     ran |-> FALSE,
     busy |-> FALSE,            \* the invocation was refused by the cycle gate
     logged |-> {},             \* the conditions it logged
     gateTimeoutAt |-> "none",  \* where dlobMutexError was thrown
     raised |-> "none",         \* the error tryFill threw to its caller
     cause |-> "none",          \* the error the catch of tryBulkFillNodes got
     snapshot |-> 0]            \* the DLOB instance its nodes were read from

\* What is left of an invocation's locals once its calls have all settled:
\* what it did, for the record; the working storage is gone.
Retired(loc) ==
    [InvInit EXCEPT !.filtered = loc.filtered, !.sent = loc.sent,
                    !.ran = loc.ran, !.busy = loc.busy, !.logged = loc.logged,
                    !.gateTimeoutAt = loc.gateTimeoutAt, !.raised = loc.raised,
                    !.cause = loc.cause]

CycleIdle ==
    /\ pc = [i \in Inv |-> "idle"]
    /\ outcome = [i \in Inv |-> "none"]
    /\ inv = [i \in Inv |-> InvInit]
    /\ periodicTaskMutex = FALSE
    /\ dlobMutex = FALSE
    /\ dlob = [gen |-> 0, orders |-> {}]
    /\ throttledNodes = EmptyThrottle
    /\ now = 0
    /\ mutexBusyCount = 0

ThrottleIdle ==
    /\ backoff = FILL_ORDER_BACKOFF
    /\ attemptAt = << >>
    /\ verdict = << >>

SizeIdle ==
    /\ arrLen = 0
    /\ elemSize = 1
    /\ encoded = -1

NodeIdle ==
    /\ dryRun = FALSE
    /\ npc = << >>
    /\ nloc = << >>
    /\ nheap = << >>

SideIdle == ThrottleIdle /\ SizeIdle /\ NodeIdle

PackIdle ==
    /\ offered = <<>>
    /\ pidx = 1
    /\ pk = PackerInit
    /\ pphase = "loop"

ReconIdle ==
    /\ rnodes = <<>>
    /\ rlog = <<>>
    /\ rpos = 1
    /\ rw = WalkInit
    /\ rremovals = <<>>
    /\ rthrottles = <<>>
    /\ rphase = "walk"
    /\ rtx = "null"
    /\ rattempts = 0
    /\ rslept = 0
    /\ rreported = <<>>

\* -------------------------------------------------------------------- Spec
\* Invocations of tryFill, by the interval timer or by trigger(), each
\* running from await to await. Invocation i is triggered once; the body of
\* an invocation goes on after promiseTimeout has given up on it.
InitCycle ==
    /\ PackIdle
    /\ ReconIdle
    /\ CycleIdle
    /\ SideIdle

\* Where tryBulkFillNodes awaits a lookup of getNodeFillInfo: the maker's
\* user, the maker's stats, the taker's user, the taker's stats.
PackLookupLocs == {"packMaker", "packMakerStats", "packUser", "packUserStats"}

\* Where an iteration of the packer's loop awaits: the lookups, then
\* getFillOrderIx.
PackLocs == PackLookupLocs \cup {"packIx"}

\* Where tryBulkFillNodes may be once it has been called.
BulkLocs == PackLocs \cup {"send", "fetch", "fetchSleep", "walk",
                           "removeAcquire", "removeBody"}

\* Invocation i was admitted by the cycle gate and tryFill has not ended.
InGate(i) == pc[i] \notin {"idle", "gateQueued", "done"} /\ outcome[i] = "none"

\* Mutant of tryAcquire: the gate admits whether locked or not.
TryAcquireAlwaysAdmits(locked) == TRUE

\* tryAcquire(periodicTaskMutex) is withTimeout(periodicTaskMutex, 0): the
\* acquisition is granted in the turn of the call iff the gate is not
\* locked; otherwise the call queues on the gate with a 0 ms timer armed.
TryAcquireAdmits(locked) == ~locked

\* The invocations queued on the cycle gate when the invocations are at p.
Queued(p) == {j \in Inv : p[j] = "gateQueued"}

\* The one that queued first: invocations are called in the order of Inv.
FirstQueued(p) == CHOOSE j \in Queued(p) : \A k \in Queued(p) : j <= k

\* Mutant of the release: a callback that threw leaves the gate locked.
CycleGateKeptOnThrow(threw) == threw

\* periodicTaskMutex after runExclusive's callback has settled: released in
\* a finally, whether the callback returned or threw.
CycleGateAfterBody(threw) == FALSE

\* Mutant of dlobMutex: runExclusive runs its callback at once.
SnapshotGateAlwaysAdmits(locked) == TRUE

\* dlobMutex.runExclusive: the callback runs once the gate is not locked.
SnapshotGateAdmits(locked) == ~locked

\* Where the invocations are once the holder of the cycle gate has left it
\* with the invocations at p: the release hands the gate to the invocation
\* that queued first, whose body starts.
PcAfterRelease(p, threw) ==
    IF ~CycleGateAfterBody(threw) /\ Queued(p) # {}
    THEN [p EXCEPT ![FirstQueued(p)] = "rebuildAcquire"]
    ELSE p

\* periodicTaskMutex once its holder has left it with the invocations at
\* p: locked again when the release handed it to a queued invocation.
GateAfterRelease(p, threw) == CycleGateAfterBody(threw) \/ Queued(p) # {}

\* dlobMutex after runExclusive's callback has settled.
SnapshotGateAfterBody(threw) == FALSE

\* The catch of tryBulkFillNodes iterates e.logs: an error that has none
\* makes the catch itself throw a TypeError.
CatchThrows(hasLogs) == ~hasLogs

\* Mutants of the catch of tryFill: one of its two tests is missing.
TryFillCatchWithoutBusy(e) ==
    CASE e = "dlobMutexError" -> "log"
      [] OTHER -> "rethrow"

TryFillCatchWithoutTimeout(e) ==
    CASE e = "E_ALREADY_LOCKED" -> "recordMutexBusy"
      [] OTHER -> "rethrow"

\* The catch of tryFill: what it does with error e of the body.
TryFillCatch(e) ==
    CASE e = "E_ALREADY_LOCKED" -> "recordMutexBusy"
      [] e = "dlobMutexError" -> "log"
      [] OTHER -> "rethrow"

\* tryFill is called: the cycle gate is taken in the turn of the call, or
\* the call queues on it with the 0 ms timer of tryAcquire armed.
Trigger(i) ==
    /\ pc[i] = "idle"
    /\ \A j \in Inv : j < i => pc[j] # "idle"
    /\ IF TryAcquireAdmits(periodicTaskMutex)
       THEN /\ periodicTaskMutex' = TRUE
            /\ pc' = [pc EXCEPT ![i] = "rebuildAcquire"]
       ELSE /\ pc' = [pc EXCEPT ![i] = "gateQueued"]
            /\ UNCHANGED periodicTaskMutex
    /\ UNCHANGED <<outcome, inv, mutexBusyCount, dlobMutex, dlob,
                   throttledNodes, now, packVars, reconVars, sideVars>>

\* The 0 ms timer of tryAcquire fires while the call is still queued: the
\* acquisition rejects with E_ALREADY_LOCKED, which the catch of tryFill
\* counts with recordMutexBusy; the body never runs.
GateRefuse(i) ==
    /\ pc[i] = "gateQueued"
    /\ pc' = [pc EXCEPT ![i] = "done"]
    /\ outcome' = [outcome EXCEPT ![i] =
                      IF TryFillCatch("E_ALREADY_LOCKED") = "rethrow"
                      THEN "raised" ELSE "returned"]
    /\ inv' = [inv EXCEPT
          ![i].busy = TRUE,
          ![i].raised =
              IF TryFillCatch("E_ALREADY_LOCKED") = "rethrow"
              THEN "E_ALREADY_LOCKED" ELSE "none"]
    /\ mutexBusyCount' =
         IF TryFillCatch("E_ALREADY_LOCKED") = "recordMutexBusy"
         THEN mutexBusyCount + 1 ELSE mutexBusyCount
    /\ UNCHANGED <<periodicTaskMutex, dlobMutex, dlob, throttledNodes, now,
                   packVars, reconVars, sideVars>>

\* The snapshot gate is free: the rebuild takes it, drops this.dlob and
\* makes a new, empty DLOB, then awaits its init.
RebuildAcquire(i) ==
    /\ pc[i] = "rebuildAcquire"
    /\ SnapshotGateAdmits(dlobMutex)
    /\ dlobMutex' = TRUE
    /\ dlob' = NewDlob(dlob)
    /\ pc' = [pc EXCEPT ![i] = "rebuildInit"]
    /\ UNCHANGED <<outcome, inv, periodicTaskMutex, throttledNodes, now,
                   mutexBusyCount, packVars, reconVars, sideVars>>

\* dlob.init resolves: the snapshot holds the orders it found.
RebuildInitDone(i) ==
    /\ pc[i] = "rebuildInit"
    /\ \E orders \in Snapshots : dlob' = [dlob EXCEPT !.orders = orders]
    /\ dlobMutex' = SnapshotGateAfterBody(FALSE)
    /\ pc' = [pc EXCEPT ![i] = "selectAcquire"]
    /\ UNCHANGED <<outcome, inv, periodicTaskMutex, throttledNodes, now,
                   mutexBusyCount, packVars, reconVars, sideVars>>

\* dlob.init rejects: the error leaves both gates and tryFill rethrows it.
RebuildInitFail(i) ==
    /\ pc[i] = "rebuildInit"
    /\ dlobMutex' = SnapshotGateAfterBody(TRUE)
    /\ periodicTaskMutex' = GateAfterRelease(pc, TRUE)
    /\ pc' = PcAfterRelease([pc EXCEPT ![i] = "done"], TRUE)
    /\ outcome' = [outcome EXCEPT ![i] =
                      IF TryFillCatch("initError") = "rethrow"
                      THEN "raised" ELSE "returned"]
    /\ inv' = [inv EXCEPT ![i] = Retired([@ EXCEPT !.raised = "initError"])]
    /\ UNCHANGED <<dlob, throttledNodes, now, mutexBusyCount, packVars, reconVars, sideVars>>

\* getFillableNodesForMarket takes the snapshot gate.
SelectAcquire(i) ==
    /\ pc[i] = "selectAcquire"
    /\ SnapshotGateAdmits(dlobMutex)
    /\ dlobMutex' = TRUE
    /\ pc' = [pc EXCEPT ![i] = "selectBody"]
    /\ UNCHANGED <<outcome, inv, periodicTaskMutex, dlob, throttledNodes, now,
                   mutexBusyCount, packVars, reconVars, sideVars>>

\* Under the gate: findNodesToFill for the market; the gate is released and
\* the loop goes to the next market, or to the filter after the last one.
SelectBody(i) ==
    /\ pc[i] = "selectBody"
    /\ LET m == inv[i].market
       IN  /\ inv' = [inv EXCEPT
                        ![i].fillableNodes = @ \o FindNodesToFill(dlob, m),
                        ![i].snapshot = dlob.gen,
                        ![i].market = m + 1]
           /\ pc' = [pc EXCEPT ![i] =
                        IF m + 1 \in Markets THEN "selectAcquire" ELSE "filter"]
    /\ dlobMutex' = SnapshotGateAfterBody(FALSE)
    /\ UNCHANGED <<outcome, periodicTaskMutex, dlob, throttledNodes, now,
                   mutexBusyCount, packVars, reconVars, sideVars>>

\* tryBulkFillNodes settles for invocation i, whose locals are then loc: if
\* tryFill still awaits it, tryFill leaves the cycle gate and returns, or
\* rethrows err; if promiseTimeout has given up, nobody reads the result.
BulkSettles(i, loc, threw, err) ==
    /\ IF outcome[i] = "none"
       THEN /\ periodicTaskMutex' = GateAfterRelease(pc, threw)
            /\ pc' = PcAfterRelease([pc EXCEPT ![i] = "done"], threw)
            /\ outcome' = [outcome EXCEPT ![i] =
                              IF threw /\ TryFillCatch(err) = "rethrow"
                              THEN "raised" ELSE "returned"]
            /\ inv' = [inv EXCEPT ![i] =
                          Retired([loc EXCEPT
                                      !.ran = ~threw,
                                      !.raised = IF threw THEN err ELSE "none"])]
       ELSE /\ pc' = [pc EXCEPT ![i] = "done"]
            /\ inv' = [inv EXCEPT ![i] = Retired(loc)]
            /\ UNCHANGED <<periodicTaskMutex, outcome>>

\* The catch of tryBulkFillNodes on error e thrown in its try block: it
\* logs, then reads e.logs.
BulkCatches(i, loc, e, hasLogs) ==
    LET l == [loc EXCEPT !.logged = @ \cup {"failed to send packed tx"},
                         !.cause = e]
    IN  BulkSettles(i, l, CatchThrows(hasLogs), "TypeError")

\* Mutant of the test after the packer's loop: an empty batch is sent.
EmptyBatchIsSent(nodesSent) == FALSE

\* The test after the packer's loop: with nothing packed tryBulkFillNodes
\* logs 'no ix' and returns ''.
EmptyBatchReturns(nodesSent) == Len(nodesSent) = 0

\* getNodeFillInfo reads node.userAccount.toString() once the lookups of
\* the maker are done: for a node that has no userAccount it throws a
\* TypeError there.
FillInfoResolves(node) == HasUserAccount(node)

\* getNodeFillInfo(node) runs to its first await: the lookup of the
\* maker's user when the node has a maker, otherwise that of the taker's.
FillInfoStart(node) ==
    IF node.hasMaker THEN "packMaker"
    ELSE IF FillInfoResolves(node) THEN "packUser"
    ELSE "TypeError"

\* The lookup awaited at loc has resolved: where the iteration awaits next.
FillInfoNext(loc, node) ==
    CASE loc = "packMaker" -> "packMakerStats"
      [] loc = "packMakerStats" ->
           IF FillInfoResolves(node) THEN "packUser" ELSE "TypeError"
      [] loc = "packUser" -> "packUserStats"
      [] OTHER -> "packIx"

\* An iteration of the packer's loop goes on to its next await, or throws
\* the TypeError, which is outside the try block: tryBulkFillNodes rejects.
IterationGoes(i, loc, next) ==
    IF next = "TypeError"
    THEN BulkSettles(i, loc, TRUE, "TypeError")
    ELSE /\ inv' = [inv EXCEPT ![i] = loc]
         /\ pc' = [pc EXCEPT ![i] = next]
         /\ UNCHANGED <<periodicTaskMutex, outcome>>

\* The filter runs on the nodes found, and tryBulkFillNodes is called under
\* promiseTimeout: with no node left its loop has no iteration, otherwise
\* it runs to the first await of the first iteration.
Filter(i) ==
    /\ pc[i] = "filter"
    /\ LET f == FilterNodes(inv[i].fillableNodes, throttledNodes, now)
           loc == [inv[i] EXCEPT !.filteredNodes = f.kept, !.filtered = TRUE]
       IN  /\ throttledNodes' = f.throttled
           /\ IF f.kept = <<>> /\ EmptyBatchReturns(loc.pk.nodesSent)
              THEN BulkSettles(i, [loc EXCEPT !.logged = @ \cup {"no ix"}],
                               FALSE, "none")
              ELSE IterationGoes(i, loc,
                                 IF f.kept = <<>> THEN "send"
                                 ELSE FillInfoStart(f.kept[1]))
    /\ UNCHANGED <<dlobMutex, dlob, now, mutexBusyCount, packVars, reconVars, sideVars>>

\* A lookup of getNodeFillInfo resolves: the iteration goes to its next
\* await.
PackLookup(i) ==
    /\ pc[i] \in PackLookupLocs
    /\ IterationGoes(i, inv[i],
                     FillInfoNext(pc[i], inv[i].filteredNodes[inv[i].pidx]))
    /\ UNCHANGED <<dlobMutex, dlob, throttledNodes, now, mutexBusyCount,
                   packVars, reconVars, sideVars>>

\* getFillOrderIx resolves: the node is packed or the loop breaks. The
\* loop then goes to the first await of the next iteration; after the
\* loop an empty batch returns '', another one is sent.
PackNode(i) ==
    /\ pc[i] = "packIx"
    /\ LET node == inv[i].filteredNodes[inv[i].pidx]
           p == PackOne(inv[i].pk, node)
           loc == [inv[i] EXCEPT !.pk = p, !.pidx = @ + 1]
           over == p.stopped \/ inv[i].pidx = Len(inv[i].filteredNodes)
       IN  IF over /\ EmptyBatchReturns(p.nodesSent)
           THEN BulkSettles(i, [loc EXCEPT !.logged = @ \cup {"no ix"}],
                            FALSE, "none")
           ELSE IterationGoes(i, loc,
                              IF over THEN "send"
                              ELSE FillInfoStart(loc.filteredNodes[loc.pidx]))
    /\ UNCHANGED <<dlobMutex, dlob, throttledNodes, now, mutexBusyCount,
                   packVars, reconVars, sideVars>>

\* A lookup of getNodeFillInfo, or getFillOrderIx, rejects: outside the try
\* block, so tryBulkFillNodes rejects with the error.
PackFail(i) ==
    /\ pc[i] \in PackLocs
    /\ BulkSettles(i, inv[i], TRUE, "fillInfoError")
    /\ UNCHANGED <<dlobMutex, dlob, throttledNodes, now, mutexBusyCount,
                   packVars, reconVars, sideVars>>

\* txSender.send resolves with the transaction's signature.
SendOk(i) ==
    /\ pc[i] = "send"
    /\ inv' = [inv EXCEPT ![i].sent = TRUE]
    /\ pc' = [pc EXCEPT ![i] = "fetch"]
    /\ UNCHANGED <<outcome, periodicTaskMutex, dlobMutex, dlob, throttledNodes,
                   now, mutexBusyCount, packVars, reconVars, sideVars>>

\* txSender.send rejects, with an error that carries logs or does not.
SendFail(i) ==
    /\ pc[i] = "send"
    /\ \E hasLogs \in BOOLEAN :
          BulkCatches(i, [inv[i] EXCEPT !.sent = TRUE], "sendError", hasLogs)
    /\ UNCHANGED <<dlobMutex, dlob, throttledNodes, now, mutexBusyCount,
                   packVars, reconVars, sideVars>>

\* The logs a transaction of these nodes may carry: a fill marker and an
\* outcome line per instruction.
PairsLogs(nodes) ==
    { [k \in 1..(2 * Len(nodes)) |->
          IF k % 2 = 1 THEN FillOrderLog ELSE f[k \div 2]] :
      f \in [DOMAIN nodes -> OutcomePool] }

\* The logs among them that differ only from line pos on: the lines the
\* log loop has already read are behind it.
PairsLogsFrom(nodes, pos) ==
    { log \in PairsLogs(nodes) :
        \A k \in DOMAIN log : k < pos /\ k % 2 = 0 => log[k] = EventDataLog }

\* getTransaction resolves, with null or with the transaction: attempts++
\* and the loop sleeps.
FetchReply(i) ==
    /\ pc[i] = "fetch"
    /\ \E reply \in {"null", "tx"} :
          inv' = [inv EXCEPT ![i].tx = reply, ![i].attempts = @ + 1]
    /\ pc' = [pc EXCEPT ![i] = "fetchSleep"]
    /\ UNCHANGED <<outcome, periodicTaskMutex, dlobMutex, dlob, throttledNodes,
                   now, mutexBusyCount, packVars, reconVars, sideVars>>

\* The sleep of the fetch loop ends: without a transaction the loop asks
\* again while it has made fewer than ten attempts, and then gives up: the
\* miss is logged and processBulkFillTxLogs returns; with the transaction
\* the log loop starts. Nothing reads attempts after the loop: the record
\* of the invocation keeps it only while the loop runs.
FetchSleepDone(i) ==
    /\ pc[i] = "fetchSleep"
    /\ IF inv[i].tx = "null" /\ inv[i].attempts < MaxFetchAttempts
       THEN /\ pc' = [pc EXCEPT ![i] = "fetch"]
            /\ UNCHANGED <<outcome, inv, periodicTaskMutex>>
       ELSE IF inv[i].tx = "null"
       THEN BulkSettles(i, [inv[i] EXCEPT !.logged = @ \cup {"tx not found"}],
                        FALSE, "none")
       ELSE /\ pc' = [pc EXCEPT ![i] = "walk"]
            /\ inv' = [inv EXCEPT ![i].attempts = 0]
            /\ UNCHANGED <<outcome, periodicTaskMutex>>
    /\ UNCHANGED <<dlobMutex, dlob, throttledNodes, now, mutexBusyCount,
                   packVars, reconVars, sideVars>>

\* getTransaction rejects: the catch of tryBulkFillNodes gets an error
\* without logs.
FetchFail(i) ==
    /\ pc[i] = "fetch"
    /\ BulkCatches(i, inv[i], "fetchError", FALSE)
    /\ UNCHANGED <<dlobMutex, dlob, throttledNodes, now, mutexBusyCount,
                   packVars, reconVars, sideVars>>

\* The log loop runs to its next await: a removal, or its end. The lines
\* of tx.meta.logMessages it has not read yet may be any.
Walk(i) ==
    /\ pc[i] = "walk"
    /\ \E log \in PairsLogsFrom(inv[i].pk.nodesSent, inv[i].wpos) :
        LET r == WalkSync(inv[i].w, inv[i].wpos, log, inv[i].pk.nodesSent,
                          throttledNodes, now)
            loc == [inv[i] EXCEPT !.w = r.w, !.wpos = r.pos]
        IN  /\ throttledNodes' = r.throttled
            /\ CASE r.stop = "remove" ->
                      /\ inv' = [inv EXCEPT ![i] = loc]
                      /\ pc' = [pc EXCEPT ![i] = "removeAcquire"]
                      /\ UNCHANGED <<periodicTaskMutex, outcome>>
                 [] r.stop = "end" -> BulkSettles(i, loc, FALSE, "none")
                 [] OTHER -> BulkCatches(i, loc, "undefinedNode", FALSE)
    /\ UNCHANGED <<dlobMutex, dlob, now, mutexBusyCount, packVars, reconVars, sideVars>>

\* The removal takes the snapshot gate.
RemoveAcquire(i) ==
    /\ pc[i] = "removeAcquire"
    /\ SnapshotGateAdmits(dlobMutex)
    /\ dlobMutex' = TRUE
    /\ pc' = [pc EXCEPT ![i] = "removeBody"]
    /\ UNCHANGED <<outcome, inv, periodicTaskMutex, dlob, throttledNodes, now,
                   mutexBusyCount, packVars, reconVars, sideVars>>

\* Under the gate: this.dlob.remove for the node of the current
\* instruction; the gate is released and the log loop goes on after the
\* line that asked for the removal.
RemoveBody(i) ==
    /\ pc[i] = "removeBody"
    /\ LET node == FilledNode(inv[i].pk.nodesSent, inv[i].w.ixIdx)
       IN  /\ dlob' = DlobRemove(dlob, node)
           /\ inv' = [inv EXCEPT
                        ![i].w = WalkLine(@, OrderDoesNotExistLog),
                        ![i].wpos = @ + 1]
    /\ dlobMutex' = SnapshotGateAfterBody(FALSE)
    /\ pc' = [pc EXCEPT ![i] = "walk"]
    /\ UNCHANGED <<outcome, periodicTaskMutex, throttledNodes, now,
                   mutexBusyCount, packVars, reconVars, sideVars>>

\* Mutant: every holder of the snapshot gate may hold it while timers fire.
HolderAwaitsAnywhere(loc) == loc \in {"rebuildInit", "selectBody", "removeBody"}

\* A holder of the snapshot gate at loc awaits an external call inside the
\* gate: only the rebuild does (dlob.init); findNodesToFill and dlob.remove
\* return in the turn that took the gate, before any timer can fire.
HolderAwaits(loc) == loc = "rebuildInit"

\* Invocation i waits for the snapshot gate across turns of the event loop.
WaitsForGate(i) ==
    /\ pc[i] \in {"rebuildAcquire", "selectAcquire", "removeAcquire"}
    /\ dlobMutex
    /\ \E j \in Inv \ {i} : HolderAwaits(pc[j])

\* Invocation i awaits something that the turn in progress cannot settle:
\* an external call or a gate held across turns. Timers fire only then.
AwaitsAcrossTurns(i) ==
    \/ pc[i] \in {"rebuildInit", "send", "fetch", "fetchSleep"} \cup PackLocs
    \/ WaitsForGate(i)

\* The wait for the snapshot gate, held by another invocation, exceeds the
\* timeout: the acquisition rejects with dlobMutexError. In tryFill the
\* error leaves the cycle gate and is logged; in the reconciliation it is
\* caught by the catch of tryBulkFillNodes.
GateTimeout(i) ==
    /\ WaitsForGate(i)
    /\ IF pc[i] = "removeAcquire"
       THEN BulkCatches(i, [inv[i] EXCEPT !.gateTimeoutAt = "remove"],
                        "dlobMutexError", FALSE)
       ELSE /\ pc' = PcAfterRelease([pc EXCEPT ![i] = "done"], TRUE)
            /\ periodicTaskMutex' = GateAfterRelease(pc, TRUE)
            /\ outcome' = [outcome EXCEPT ![i] =
                              IF TryFillCatch("dlobMutexError") = "rethrow"
                              THEN "raised" ELSE "returned"]
            /\ inv' = [inv EXCEPT ![i] = Retired([@ EXCEPT
                  !.gateTimeoutAt =
                      IF pc[i] = "rebuildAcquire" THEN "rebuild" ELSE "select",
                  !.raised =
                      IF TryFillCatch("dlobMutexError") = "rethrow"
                      THEN "dlobMutexError" ELSE "none",
                  !.logged =
                      IF TryFillCatch("dlobMutexError") = "log"
                      THEN @ \cup {"dlobMutexError timeout"} ELSE @])]
    /\ UNCHANGED <<dlobMutex, dlob, throttledNodes, now, mutexBusyCount,
                   packVars, reconVars, sideVars>>

\* promiseTimeout resolves with null before tryBulkFillNodes has settled:
\* tryFill logs the timeout, leaves the cycle gate and returns; the calls
\* of tryBulkFillNodes in flight go on.
CycleTimeout(i) ==
    /\ pc[i] \in BulkLocs
    /\ AwaitsAcrossTurns(i)
    /\ outcome[i] = "none"
    /\ outcome' = [outcome EXCEPT ![i] = "returned"]
    /\ periodicTaskMutex' = GateAfterRelease(pc, FALSE)
    /\ pc' = PcAfterRelease(pc, FALSE)
    /\ inv' = [inv EXCEPT ![i].logged = @ \cup {"Timeout tryFill"},
                          ![i].ran = TRUE]
    /\ UNCHANGED <<dlobMutex, dlob, throttledNodes, now, mutexBusyCount,
                   packVars, reconVars, sideVars>>

\* Time passes.
Tick ==
    /\ now < MaxTime
    /\ now' = now + 1
    /\ UNCHANGED <<pc, outcome, inv, periodicTaskMutex, dlobMutex, dlob,
                   throttledNodes, mutexBusyCount, packVars, reconVars, sideVars>>

\* A step of invocation i of tryFill.
CycleStep(i) ==
    \/ Trigger(i)
    \/ GateRefuse(i)
    \/ RebuildAcquire(i)
    \/ RebuildInitDone(i)
    \/ RebuildInitFail(i)
    \/ SelectAcquire(i)
    \/ SelectBody(i)
    \/ Filter(i)
    \/ PackLookup(i)
    \/ PackNode(i)
    \/ PackFail(i)
    \/ SendOk(i)
    \/ SendFail(i)
    \/ FetchReply(i)
    \/ FetchSleepDone(i)
    \/ FetchFail(i)
    \/ Walk(i)
    \/ RemoveAcquire(i)
    \/ RemoveBody(i)
    \/ GateTimeout(i)
    \/ CycleTimeout(i)

Next ==
    \/ \E i \in Inv : CycleStep(i)
    \/ Tick

\* A step of an invocation of tryFill whose dlob.init finds no order: the
\* cycle rebuilds the snapshot, reads each market and ends on the empty
\* batch, or its rebuild fails.
EmptyBookCycle(i) ==
    \/ Trigger(i)
    \/ GateRefuse(i)
    \/ RebuildAcquire(i)
    \/ RebuildInitDone(i) /\ dlob'.orders = {}
    \/ RebuildInitFail(i)
    \/ SelectAcquire(i)
    \/ SelectBody(i)
    \/ Filter(i)

Spec == InitCycle /\ [][Next]_vars

\* Spec with the fairness the event loop gives: a timer that stays armed
\* fires, and a continuation that stays runnable runs. The completion of
\* an external call (dlob.init, the fill information, send, getTransaction)
\* is not promised.
FairSpec ==
    /\ Spec
    /\ \A i \in Inv :
          /\ WF_vars(CycleTimeout(i))
          /\ WF_vars(GateRefuse(i))
          /\ WF_vars(FetchSleepDone(i))
          /\ WF_vars(GateTimeout(i))
          /\ WF_vars(RebuildAcquire(i))
          /\ WF_vars(SelectAcquire(i))
          /\ WF_vars(SelectBody(i))
          /\ WF_vars(Filter(i))
          /\ WF_vars(Walk(i))
          /\ WF_vars(RemoveAcquire(i))
          /\ WF_vars(RemoveBody(i))

\* ---------------------------------------------------------------- SpecPack
\* tryBulkFillNodes on the candidates offered, from await to await: the
\* lookups of getNodeFillInfo and getFillOrderIx of each iteration, up to
\* the return of '' or the call of txSender.send.

\* Where tryBulkFillNodes stands once its loop goes on to candidate k with
\* the packer at p: at the first await of that iteration, or, the loop
\* over, at the return of '' or at the call of txSender.send; a node without
\* userAccount and without maker throws before any await, outside the try
\* block, and tryBulkFillNodes rejects.
PackGoes(p, k) ==
    IF p.stopped \/ k > Len(offered)
    THEN IF EmptyBatchReturns(p.nodesSent) THEN "noix" ELSE "send"
    ELSE IF FillInfoStart(offered[k]) = "TypeError" THEN "rejected"
    ELSE FillInfoStart(offered[k])

InitPack ==
    /\ offered \in SeqsUpTo(PackPool, MaxOffered)
    /\ pidx = 1
    /\ pk = PackerInit
    /\ pphase = PackGoes(PackerInit, 1)
    /\ ReconIdle
    /\ CycleIdle
    /\ SideIdle

\* A lookup of getNodeFillInfo resolves: the iteration goes to its next
\* await, or getNodeFillInfo throws on a node without userAccount.
PackAwait ==
    /\ pphase \in PackLookupLocs
    /\ pphase' = (IF FillInfoNext(pphase, offered[pidx]) = "TypeError"
                  THEN "rejected"
                  ELSE FillInfoNext(pphase, offered[pidx]))
    /\ UNCHANGED <<offered, pidx, pk, reconVars, cycleVars, sideVars>>

\* getFillOrderIx resolves: the rest of the iteration packs the node or
\* breaks, and the loop goes to the first await of the next iteration;
\* after the loop nothing packed returns '', otherwise the batch is sent.
PackStep ==
    /\ pphase = "packIx"
    /\ pk' = PackOne(pk, offered[pidx])
    /\ pidx' = pidx + 1
    /\ pphase' = PackGoes(pk', pidx')
    /\ UNCHANGED <<offered, reconVars, cycleVars, sideVars>>

\* A lookup of getNodeFillInfo, or getFillOrderIx, rejects: outside the try
\* block, so tryBulkFillNodes rejects and txSender.send is not called.
PackReject ==
    /\ pphase \in PackLocs
    /\ pphase' = "rejected"
    /\ UNCHANGED <<offered, pidx, pk, reconVars, cycleVars, sideVars>>

NextPack == PackAwait \/ PackStep \/ PackReject

SpecPack == InitPack /\ [][NextPack]_vars

\* The estimate of a batch made of the nodes of s, in order: the envelope
\* plus, per operation, its encoded size and 32 bytes per account reference
\* it adds to those of the envelope and of the operations before it.
AccountsOf(s) ==
    InitialUniqueAccounts
      \cup UNION {SeqRange(s[k].ix.keys) \cup {s[k].ix.programId} : k \in DOMAIN s}

RECURSIVE CumulativeSize(_)
CumulativeSize(s) ==
    IF s = <<>> THEN InitialTxSize
    ELSE LET front == SubSeq(s, 1, Len(s) - 1)
             last == s[Len(s)]
             refs == last.ix.keys \o <<last.ix.programId>>
             fresh == {k \in DOMAIN refs : refs[k] \notin AccountsOf(front)}
         IN  CumulativeSize(front) + 1
               + (1 + (IF Len(last.ix.keys) = 0 THEN 1 ELSE Len(last.ix.keys)))
               + (1 + (IF last.ix.dataLen = 0 THEN 1 ELSE last.ix.dataLen))
               + 32 * Cardinality(fresh)

\* C3: after each accepted candidate the running estimated size, which is
\* the envelope plus every accepted operation's encoded size and the cost
\* of its newly referenced accounts, is strictly below the byte budget.
C3_RunningSizeBelowBudget ==
    /\ pk.runningTxSize = CumulativeSize(pk.nodesSent)
    /\ \A n \in 0..Len(pk.nodesSent) :
          CumulativeSize(SubSeq(pk.nodesSent, 1, n)) < maxTxSize

\* A batch of two accepted operations at which the packer stopped.
C3_Witness ==
    /\ pphase = "send"
    /\ pk.stopped
    /\ Len(pk.nodesSent) >= 2

\* The longest prefix of offered whose every prefix stays under the budget.
FitsPrefix(n) ==
    \A m \in 0..n : CumulativeSize(SubSeq(offered, 1, m)) < maxTxSize

MaxPrefixLen ==
    CHOOSE n \in 0..Len(offered) :
        /\ FitsPrefix(n)
        /\ \A m \in 0..Len(offered) : FitsPrefix(m) => m <= n

\* C4: the packer accepts exactly the maximal prefix of the offered
\* sequence, in order, that stays under the budget; after the first
\* candidate that does not fit it accepts nothing more. While the loop
\* runs, and when an awaited call has rejected, what is accepted is a part
\* of that prefix; once the loop is over it is the whole of it.
C4_MaximalPrefix ==
    /\ pk.nodesSent = SubSeq(offered, 1, Len(pk.nodesSent))
    /\ Len(pk.nodesSent) <= MaxPrefixLen
    /\ pphase \in {"noix", "send"} => Len(pk.nodesSent) = MaxPrefixLen
    /\ pk.stopped => Len(pk.nodesSent) = MaxPrefixLen

\* The packer stopped at a candidate although a later one would have fit.
C4_Witness ==
    /\ pphase = "send"
    /\ pk.stopped
    /\ \E j \in (Len(pk.nodesSent) + 2)..Len(offered) :
          CumulativeSize(Append(pk.nodesSent, offered[j])) < maxTxSize

\* --------------------------------------------------------------- SpecRecon
\* processBulkFillTxLogs once the transaction has been fetched, for a batch
\* whose cycle may have been given up by promiseTimeout, beside later
\* invocations of tryFill, whose rebuild holds the snapshot gate while
\* dlob.init is pending.

\* The logs reconciled: marker and outcome lines in turn, with null entries
\* anywhere among them.
ReconLogs ==
    { log \in SeqsUpTo(LinePool, MaxLog) :
        LET lines == SelectSeq(log, LAMBDA l : ~l.null)
        IN  \A k \in DOMAIN lines :
               IF k % 2 = 1 THEN lines[k] = FillOrderLog
               ELSE lines[k] \in OutcomePool }

\* The bot when processBulkFillTxLogs is called for nodesFilled: no
\* invocation of tryFill is running, the snapshot holds the orders of the
\* batch.
ReconCycleInit(nodesFilled) ==
    /\ pc = [i \in Inv |-> "idle"]
    /\ outcome = [i \in Inv |-> "none"]
    /\ inv = [i \in Inv |-> InvInit]
    /\ periodicTaskMutex = FALSE
    /\ dlobMutex = FALSE
    /\ dlob = [gen |-> 1, orders |-> SeqRange(nodesFilled)]
    /\ throttledNodes = EmptyThrottle
    /\ now = 0
    /\ mutexBusyCount = 0

InitRecon ==
    /\ PackIdle
    /\ SideIdle
    /\ \E n \in {1, MaxBatch} : rnodes = [k \in 1..n |-> ReconNode(k)]
    /\ ReconCycleInit(rnodes)
    /\ rlog \in ReconLogs
    /\ rpos = 1
    /\ rw = WalkInit
    /\ rremovals = <<>>
    /\ rthrottles = <<>>
    /\ rphase = "walk"
    /\ rtx = "tx"
    /\ rattempts = 1
    /\ rslept = FetchDelay
    /\ rreported = <<>>

\* One iteration of the loop over the log messages, up to its await when
\* the line asks for a removal.
ReconLine ==
    /\ rphase = "walk"
    /\ rpos <= Len(rlog)
    /\ LET log == rlog[rpos]
           b == LogBranch(rw, log)
           filledNode == FilledNode(rnodes, rw.ixIdx)
       IN  IF b \in {"remove", "throttle"} /\ ~LogsFilledNode(rnodes, rw.ixIdx)
           THEN \* filledNode.node of undefined: a TypeError leaves the walk
                /\ rphase' = "threw"
                /\ UNCHANGED <<rpos, rw, rthrottles, throttledNodes>>
           ELSE IF b = "remove"
           THEN \* await this.dlobMutex.runExclusive
                /\ rphase' = "removeAcquire"
                /\ UNCHANGED <<rpos, rw, rthrottles, throttledNodes>>
           ELSE /\ rw' = WalkLine(rw, log)
                /\ rpos' = rpos + 1
                /\ rthrottles' =
                     IF b = "throttle"
                     THEN Append(rthrottles, getNodeToFillSignature(filledNode))
                     ELSE rthrottles
                /\ throttledNodes' =
                     IF b = "throttle"
                     THEN ThrottleSet(throttledNodes,
                                      getNodeToFillSignature(filledNode), now)
                     ELSE throttledNodes
                /\ UNCHANGED rphase
    /\ UNCHANGED <<rnodes, rlog, rremovals, rtx, rattempts, rslept, rreported,
                   pc, outcome, inv, periodicTaskMutex, dlobMutex, dlob, now,
                   mutexBusyCount, packVars, sideVars>>

\* The removal takes the snapshot gate.
ReconRemoveAcquire ==
    /\ rphase = "removeAcquire"
    /\ SnapshotGateAdmits(dlobMutex)
    /\ dlobMutex' = TRUE
    /\ rphase' = "removeBody"
    /\ UNCHANGED <<rnodes, rlog, rpos, rw, rremovals, rthrottles, rtx,
                   rattempts, rslept, rreported, pc, outcome, inv,
                   periodicTaskMutex, dlob, throttledNodes, now, mutexBusyCount,
                   packVars, sideVars>>

\* Under the gate: this.dlob.remove for the node of the current
\* instruction; the gate is released and the iteration ends.
ReconRemoveBody ==
    /\ rphase = "removeBody"
    /\ LET filledNode == FilledNode(rnodes, rw.ixIdx)
       IN  /\ dlob' = DlobRemove(dlob, filledNode)
           /\ rremovals' = Append(rremovals, filledNode)
    /\ dlobMutex' = SnapshotGateAfterBody(FALSE)
    /\ rw' = WalkLine(rw, rlog[rpos])
    /\ rpos' = rpos + 1
    /\ rphase' = "walk"
    /\ UNCHANGED <<rnodes, rlog, rthrottles, rtx, rattempts, rslept, rreported,
                   pc, outcome, inv, periodicTaskMutex, throttledNodes, now,
                   mutexBusyCount, packVars, sideVars>>

\* The wait of the removal for the snapshot gate, held by the rebuild of an
\* invocation of tryFill, exceeds the timeout: the acquisition rejects with
\* dlobMutexError and the loop over the log is left.
ReconGateTimeout ==
    /\ rphase = "removeAcquire"
    /\ dlobMutex
    /\ \E j \in Inv : HolderAwaits(pc[j])
    /\ rphase' = "gateTimeout"
    /\ UNCHANGED <<rnodes, rlog, rpos, rw, rremovals, rthrottles, rtx,
                   rattempts, rslept, rreported, packVars, cycleVars, sideVars>>

\* The loop is over: the success count is reported to the metrics with
\* recordFilledOrder, and processBulkFillTxLogs returns.
ReconEnd ==
    /\ rphase = "walk"
    /\ rpos > Len(rlog)
    /\ rphase' = "done"
    /\ rreported' = Append(rreported, rw.successCount)
    /\ UNCHANGED <<rnodes, rlog, rpos, rw, rremovals, rthrottles, rtx,
                   rattempts, rslept, packVars, cycleVars, sideVars>>

\* A step of the log loop.
ReconStep ==
    \/ ReconLine
    \/ ReconRemoveAcquire
    \/ ReconRemoveBody
    \/ ReconGateTimeout
    \/ ReconEnd

NextRecon ==
    \/ ReconStep
    \/ \E i \in Inv : EmptyBookCycle(i)

SpecRecon == InitRecon /\ [][NextRecon]_vars

\* A log made of marker/outcome pairs, one pair per packed node at most.
IsPairsLog ==
    /\ Len(rlog) % 2 = 0
    /\ Len(rlog) <= 2 * Len(rnodes)
    /\ \A i \in DOMAIN rlog :
          IF i % 2 = 1 THEN rlog[i] = FillOrderLog ELSE rlog[i] \in OutcomePool

\* The nodes among the first K whose outcome line contains phrase, in order.
RECURSIVE NodesWithOutcome(_, _)
NodesWithOutcome(K, phrase) ==
    IF K = 0 THEN <<>>
    ELSE NodesWithOutcome(K - 1, phrase)
           \o (IF phrase \in rlog[2 * K].has THEN <<rnodes[K]>> ELSE <<>>)

SignaturesOf(nodes) == [k \in DOMAIN nodes |-> getNodeToFillSignature(nodes[k])]

\* The pairs the walk has gone through.
PairsDone == (rpos - 1) \div 2

\* C5: on a log of marker/outcome pairs the outcome after the k-th marker is
\* attributed to the k-th packed node, and every pair gets its effect: the
\* walk is never cut short, the removals are exactly the nodes whose
\* outcome reads "Order does not exist", the throttle records exactly those
\* whose outcome reads "Amm cant fulfill order", each once and in packing
\* order, and the success count is the number of long opaque lines.
C5_OutcomeAttribution ==
    IsPairsLog =>
        /\ rphase \notin {"threw", "gateTimeout"}
        /\ rremovals = NodesWithOutcome(PairsDone, "Order does not exist")
        /\ rthrottles =
             SignaturesOf(NodesWithOutcome(PairsDone, "Amm cant fulfill order"))
        /\ rw.successCount =
             Cardinality({k \in 1..PairsDone : rlog[2 * k] = EventDataLog})

\* ------------------------------------------------------------- cycle gate
\* C1: the cycle gate is never held by two invocations of tryFill at once.
C1_OneCycleInGate == Cardinality({i \in Inv : InGate(i)}) <= 1

\* A trigger came while a cycle was in the gate, and was refused.
C1_Witness ==
    \E i, j \in Inv : InGate(i) /\ pc[i] \in BulkLocs /\ inv[j].busy

\* C2: a call of tryFill that finds the cycle gate locked is never run
\* afterwards: it leaves the queue of the gate only by being refused, with
\* the busy counter one up, tryFill returning without raising, and the
\* snapshot, the throttle registry and the holder of the gate as they were.
C2_BusyTriggerDropped ==
    [][\A i \in Inv :
          pc[i] = "gateQueued" =>
             \/ pc'[i] = "gateQueued"
             \/ /\ pc'[i] = "done"
                /\ outcome'[i] = "returned"
                /\ inv'[i] = [InvInit EXCEPT !.busy = TRUE]
                /\ mutexBusyCount' = mutexBusyCount + 1
                /\ dlob' = dlob
                /\ throttledNodes' = throttledNodes
                /\ periodicTaskMutex' = periodicTaskMutex
                /\ dlobMutex' = dlobMutex]_vars

\* ------------------------------------------------------- failed submission
\* C6: when txSender.send rejects, every node of the batch has an entry in
\* throttledNodes stamped with the time of the failure, and tryBulkFillNodes
\* ends without sending again.
C6_SendFailureThrottlesBatch ==
    [][\A i \in Inv :
          (pc[i] = "send" /\ pc'[i] = "done" /\ inv'[i].cause = "sendError") =>
              \A k \in DOMAIN inv[i].pk.nodesSent :
                  LET sig == getNodeToFillSignature(inv[i].pk.nodesSent[k])
                  IN  /\ sig \in DOMAIN throttledNodes'
                      /\ throttledNodes'[sig] = now]_vars

\* ------------------------------------------------------ snapshot gate timeout
\* C7, as stated: whichever acquisition of dlobMutex times out, tryFill ends
\* there without raising, the timeout is logged, no node was selected or
\* filtered, no transaction was sent, and the cycle gate is free.
C7_AnyGateTimeoutAbortsCycle ==
    [][\A i \in Inv :
          (inv[i].gateTimeoutAt = "none" /\ inv'[i].gateTimeoutAt # "none") =>
              /\ pc'[i] = "done"
              /\ outcome'[i] = "returned"
              /\ inv'[i].raised = "none"
              /\ "dlobMutexError timeout" \in inv'[i].logged
              /\ inv[i].fillableNodes = << >>
              /\ ~inv'[i].filtered
              /\ ~inv'[i].sent
              /\ ~periodicTaskMutex']_vars

\* C7, amended: an acquisition of dlobMutex times out only in the
\* reconciliation of an invocation that the cycle timeout has already
\* ended, while a later cycle rebuilds the snapshot. The transaction of
\* that invocation had been sent and tryFill had returned; on the timeout
\* the reconciliation stops, the condition is logged, nothing is raised to
\* the caller of tryFill, and the snapshot, the throttle registry and the
\* cycle gate are left as they were.
C7_GateTimeoutStopsReconciliation ==
    [][\A i \in Inv :
          (inv[i].gateTimeoutAt = "none" /\ inv'[i].gateTimeoutAt # "none") =>
              /\ inv'[i].gateTimeoutAt = "remove"
              /\ inv[i].sent
              /\ "Timeout tryFill" \in inv[i].logged
              /\ outcome[i] = "returned"
              /\ outcome'[i] = "returned"
              /\ inv'[i].raised = "none"
              /\ pc'[i] = "done"
              /\ "failed to send packed tx" \in inv'[i].logged
              /\ dlob' = dlob
              /\ throttledNodes' = throttledNodes
              /\ periodicTaskMutex' = periodicTaskMutex]_vars

\* The reconciliation of a timed out cycle gave up on dlobMutex while the
\* next cycle was rebuilding the snapshot.
C7_Witness ==
    \E i, j \in Inv :
        /\ inv[i].gateTimeoutAt = "remove"
        /\ pc[i] = "done"
        /\ pc[j] = "rebuildInit"
        /\ InGate(j)

\* ------------------------------------------------------------ propagation
\* C8: tryFill raises to its caller only an error that is none of: a failed
\* send, a failed getTransaction, a timeout of dlobMutex, a locked cycle gate.
C8_TaxonomyErrorsHandled ==
    \A i \in Inv :
        outcome[i] = "raised" =>
            /\ inv[i].cause = "none"
            /\ inv[i].raised \in {"initError", "fillInfoError"}

\* C9: the cycle gate is locked exactly while an admitted invocation of
\* tryFill has not ended: however the invocation ends, the gate is free.
C9_GateIdleAfterCompletion ==
    periodicTaskMutex <=> \E i \in Inv : InGate(i)

\* An invocation ended by re-raising, another by the cycle timeout with its
\* calls still in flight, and the gate is free.
C9_Witness ==
    \E i, j \in Inv :
        /\ outcome[i] = "raised"
        /\ outcome[j] = "returned" /\ pc[j] \in BulkLocs
        /\ ~periodicTaskMutex

\* C10: an admitted invocation of tryFill ends, and frees the cycle gate,
\* even if no external call of it ever completes.
C10_CycleBounded ==
    \A i \in Inv : InGate(i) ~> ~InGate(i)

\* ------------------------------------------------------------ SpecThrottle
\* The throttle registry alone: attempts are recorded and the filter looks
\* candidates up while time passes, for each backoff window up to MaxWindow.
ThrottlePool ==
    { MkNode(User(1), 1, 1, FillIx(<<Key(1)>>, 18)),
      [MkNode(User(2), 2, 1, FillIx(<<Key(2)>>, 18)) EXCEPT !.hasMaker = FALSE],
      [MkNode(User(3), 3, 1, FillIx(<<Key(3)>>, 18)) EXCEPT !.haveFilled = TRUE] }

ThrottleSigs == {getNodeToFillSignature(n) : n \in ThrottlePool}

InitThrottle ==
    /\ PackIdle
    /\ ReconIdle
    /\ CycleIdle
    /\ SizeIdle
    /\ NodeIdle
    /\ backoff \in 0..MaxWindow
    /\ attemptAt = [sig \in ThrottleSigs |-> -1]
    /\ verdict = << >>

\* throttledNodes.set(signature, Date.now())
RecordAttempt ==
    /\ \E node \in ThrottlePool :
          LET sig == getNodeToFillSignature(node)
          IN  /\ throttledNodes' = ThrottleSet(throttledNodes, sig, now)
              /\ attemptAt' = [attemptAt EXCEPT ![sig] = now]
    /\ UNCHANGED <<backoff, verdict, pc, outcome, inv, periodicTaskMutex,
                   dlobMutex, dlob, now, mutexBusyCount, packVars, reconVars,
                   sizeVars, nodeVars>>

\* filterFillableNodes(node): the calls so far, the latest last.
LookUpNode(node) ==
    /\ Len(verdict) < MaxLookUps
    /\ LET r == FilterOneWith(node, throttledNodes, now, backoff)
       IN  /\ throttledNodes' = r.throttled
           /\ verdict' = Append(verdict, [node |-> node, keep |-> r.keep])
    /\ UNCHANGED <<backoff, attemptAt, pc, outcome, inv, periodicTaskMutex,
                   dlobMutex, dlob, now, mutexBusyCount, packVars, reconVars,
                   sizeVars, nodeVars>>

\* Date.now() grows.
ClockTick ==
    /\ now < MaxClock
    /\ now' = now + 1
    /\ UNCHANGED <<throttleVars, pc, outcome, inv, periodicTaskMutex,
                   dlobMutex, dlob, throttledNodes, mutexBusyCount, packVars,
                   reconVars, sizeVars, nodeVars>>

LookUp == \E node \in ThrottlePool : LookUpNode(node)

NextThrottle == RecordAttempt \/ LookUp \/ ClockTick

SpecThrottle == InitThrottle /\ [][NextThrottle]_vars

\* C11: a call of the filter that reaches the lookup of signature s, whose
\* last attempt was recorded at t, rejects the node and keeps the entry
\* while t <= now < t + window; from t + window on it does not reject the
\* node for the throttle and s is absent from the registry after the call;
\* with a window of 0 the throttle rejects nothing.
C11_ThrottleWindow ==
    [][\A node \in ThrottlePool :
          LET sig == getNodeToFillSignature(node)
              t == attemptAt[sig]
              passes == node.hasMaker \/ node.fillableByVAMM
              kept == verdict'[Len(verdict')].keep
          IN  (LookUpNode(node) /\ ~node.isVammNode /\ ~node.haveFilled) =>
                  /\ (t >= 0 /\ now < t + backoff) =>
                        /\ ~kept
                        /\ sig \in DOMAIN throttledNodes'
                        /\ throttledNodes'[sig] = t
                  /\ (t < 0 \/ now >= t + backoff) =>
                        /\ kept = passes
                        /\ sig \notin DOMAIN throttledNodes'
                  /\ backoff = 0 => kept = passes
                  /\ \A other \in ThrottleSigs \ {sig} :
                        (other \in DOMAIN throttledNodes') =
                            (other \in DOMAIN throttledNodes)]_vars

\* A node looked up after its window was kept and its entry is gone; then,
\* inside the window of a new attempt, it was rejected and the entry kept.
C11_Witness ==
    /\ backoff > 0
    /\ Len(verdict) = 3
    /\ verdict[1].node = verdict[2].node
    /\ verdict[1].keep
    /\ ~verdict[2].keep
    /\ getNodeToFillSignature(verdict[2].node) \in DOMAIN throttledNodes
    /\ \E sig \in ThrottleSigs :
          /\ attemptAt[sig] >= 0
          /\ now >= attemptAt[sig] + backoff
          /\ sig \notin DOMAIN throttledNodes

\* ---------------------------------------------------------------- SpecSize
\* calcCompactU16EncodedSize on arrays of the lengths around the steps of
\* the prefix, and of small lengths, with elements of 1, 2 and 32 bytes.
SizeLens == (0..MaxSmallLen) \cup (126..129) \cup (16382..16385)

ElemSizes == {1, 2, 32}

InitSize ==
    /\ PackIdle
    /\ ReconIdle
    /\ CycleIdle
    /\ ThrottleIdle
    /\ NodeIdle
    /\ arrLen \in SizeLens
    /\ elemSize \in ElemSizes
    /\ encoded = -1

Encode ==
    /\ encoded = -1
    /\ encoded' = calcCompactU16EncodedSize(arrLen, elemSize)
    /\ UNCHANGED <<arrLen, elemSize, packVars, reconVars, cycleVars,
                   throttleVars, nodeVars>>

NextSize == Encode

SpecSize == InitSize /\ [][NextSize]_vars

\* The width of the compact-u16 prefix of a length.
PrefixWidth(n) == IF n <= 127 THEN 1 ELSE IF n <= 16383 THEN 2 ELSE 3

\* C12: the size returned for an array of n elements of e bytes is the
\* width of the prefix of n plus n * e; for an empty array it is 1.
C12_PrefixPlusPayload ==
    encoded # -1 => encoded = PrefixWidth(arrLen) + arrLen * elemSize

\* --------------------------------------------------------------- SpecBatch
\* tryBulkFillNodes from the moment txSender.send has resolved: the fetch
\* loop turn by turn, the log loop, the reports to the metrics, the return.
InitBatch ==
    /\ PackIdle
    /\ SideIdle
    /\ \E n \in {1, MaxBatch} : rnodes = [k \in 1..n |-> ReconNode(k)]
    /\ ReconCycleInit(rnodes)
    /\ rlog = <<>>
    /\ rpos = 1
    /\ rw = WalkInit
    /\ rremovals = <<>>
    /\ rthrottles = <<>>
    /\ rphase = "fetch"
    /\ rtx = "null"
    /\ rattempts = 0
    /\ rslept = 0
    /\ rreported = <<>>

\* getTransaction of the fetch loop resolves with null or with the
\* transaction, whose log messages are a fill marker and an outcome line per
\* instruction, or rejects; then attempts++ and the loop sleeps.
FetchAttempt ==
    /\ rphase = "fetch"
    /\ \E reply \in {"null", "tx", "reject"} :
          IF reply = "reject"
          THEN /\ rphase' = "threw"
               /\ UNCHANGED <<rtx, rlog, rattempts>>
          ELSE /\ rtx' = reply
               /\ IF reply = "tx"
                  THEN rlog' \in PairsLogs(rnodes)
                  ELSE rlog' = rlog
               /\ rattempts' = rattempts + 1
               /\ rphase' = "sleep"
    /\ UNCHANGED <<rnodes, rpos, rw, rremovals, rthrottles, rslept, rreported,
                   packVars, cycleVars, sideVars>>

\* The sleep of the fetch loop ends, after the attempt that got the
\* transaction too: without a transaction the loop asks again while it has
\* made fewer than ten attempts, and then processBulkFillTxLogs logs "not
\* found" and returns; with one it goes to the log loop.
FetchSleep ==
    /\ rphase = "sleep"
    /\ rslept' = rslept + FetchDelay
    /\ rphase' = IF rtx = "null" /\ rattempts < MaxFetchAttempts THEN "fetch"
                 ELSE IF rtx = "null" THEN "notfound"
                 ELSE "walk"
    /\ UNCHANGED <<rnodes, rlog, rpos, rw, rremovals, rthrottles, rtx,
                   rattempts, rreported, packVars, cycleVars, sideVars>>

\* processBulkFillTxLogs has returned: tryBulkFillNodes reports
\* nodesSent.length to the metrics with recordFilledOrder and returns txSig.
BatchReturn ==
    /\ rphase \in {"done", "notfound"}
    /\ rreported' = Append(rreported, Len(rnodes))
    /\ rphase' = "returned"
    /\ UNCHANGED <<rnodes, rlog, rpos, rw, rremovals, rthrottles, rtx,
                   rattempts, rslept, packVars, cycleVars, sideVars>>

\* processBulkFillTxLogs has thrown an error without logs: the catch of
\* tryBulkFillNodes throws on it, and tryBulkFillNodes rejects.
BatchCatch ==
    /\ rphase \in {"threw", "gateTimeout"}
    /\ rphase' = IF CatchThrows(FALSE) THEN "rejected" ELSE "caught"
    /\ UNCHANGED <<rnodes, rlog, rpos, rw, rremovals, rthrottles, rtx,
                   rattempts, rslept, rreported, packVars, cycleVars, sideVars>>

NextBatch ==
    \/ FetchAttempt
    \/ FetchSleep
    \/ ReconStep
    \/ BatchReturn
    \/ BatchCatch
    \/ \E i \in Inv : EmptyBookCycle(i)

SpecBatch == InitBatch /\ [][NextBatch]_vars

\* The sum of the counts in s.
RECURSIVE SumSeq(_)
SumSeq(s) == IF s = <<>> THEN 0 ELSE Head(s) + SumSeq(Tail(s))

\* C14: the fetch loop makes at most 10 attempts, a fixed delay after each;
\* and once it has given up without a transaction, nothing is removed,
\* nothing is throttled, no filled order is counted and nothing is raised.
C14_UnknownOutcomeIsInert ==
    /\ rattempts <= MaxFetchAttempts
    /\ rslept = (IF rphase = "sleep" THEN rattempts - 1 ELSE rattempts) * FetchDelay
    /\ (rtx = "null" /\ rphase \in {"notfound", "returned"}) =>
          /\ rattempts = MaxFetchAttempts
          /\ rremovals = <<>>
          /\ rthrottles = <<>>
          /\ SumSeq(rreported) = 0

\* C20: when tryBulkFillNodes has returned for a batch whose transaction
\* was fetched, the filled orders reported to the metrics add up to the
\* number of outcomes that were classified as successes.
C20_ReportedEqualsSucceeded ==
    (rphase = "returned" /\ rtx = "tx") =>
        SumSeq(rreported) =
          Cardinality({k \in 1..(Len(rlog) \div 2) : rlog[2 * k] = EventDataLog})

\* ---------------------------------------------------------------- C15
\* C15: when the filter leaves no candidate (none was found, or none
\* survived), tryBulkFillNodes returns with an empty batch in the same
\* step: nothing is sent, nothing is fetched, throttledNodes is as the
\* filter left it with no attempt written, the snapshot and its gate are as
\* they were, and tryFill leaves the cycle gate and returns with no error
\* and no timeout logged.
C15_EmptyBatchIsInert ==
    [][ \A i \in Inv :
          ( /\ pc[i] = "filter"
            /\ pc'[i] # "filter"
            /\ FilterNodes(inv[i].fillableNodes, throttledNodes, now).kept = <<>> )
          =>
          ( /\ pc'[i] = "done"
            /\ ~inv'[i].sent
            /\ inv'[i].logged = {"no ix"}
            /\ inv'[i].cause = "none"
            /\ inv'[i].raised = "none"
            /\ inv'[i].ran
            /\ outcome'[i] = "returned"
            /\ ~InGate(i)'
            /\ periodicTaskMutex' = (Queued(pc) # {})
            /\ dlob' = dlob
            /\ dlobMutex' = dlobMutex
            /\ throttledNodes' =
                 FilterNodes(inv[i].fillableNodes, throttledNodes, now).throttled
            /\ \A sig \in DOMAIN throttledNodes' :
                  /\ sig \in DOMAIN throttledNodes
                  /\ throttledNodes'[sig] = throttledNodes[sig] )
      ]_vars

\* The latest cycle found an order, the filter rejected it, and the cycle
\* ended with an empty batch.
C15_Witness ==
    \E i \in Inv :
       /\ pc[i] = "done"
       /\ inv[i].logged = {"no ix"}
       /\ ~inv[i].sent
       /\ outcome[i] = "returned"
       /\ dlob.gen = i
       /\ dlob.orders # {}
       /\ \A n \in dlob.orders : ~n.hasMaker

\* ---------------------------------------------------------------- SpecNode
\* Calls of tryFillNode beside invocations of tryFill, each running from
\* await to await.
Calls == 1..MaxCalls

\* The node objects tryFillNode is called with, and the null argument. A
\* call holds a reference: the call and the snapshot that an earlier cycle
\* built hold the same object.
NodeRefs == {"node1", "node2", "node3"}
NullRef == "null"

\* The objects as they are at first: an order without a maker, an order
\* marked as filled, and a node without userAccount.
NodeObject(r) ==
    CASE r = "node1" ->
           [MkNode(User(1), 1, 1, FillIx(<<Key(1)>>, 18)) EXCEPT !.hasMaker = FALSE]
      [] r = "node2" ->
           [MkNode(User(2), 2, 1, FillIx(<<Key(2)>>, 18)) EXCEPT !.haveFilled = TRUE]
      [] OTHER -> MkNode(NoUser, 3, 1, FillIx(<<Key(3)>>, 18))

NodePool == {NodeObject(r) : r \in NodeRefs}

\* The snapshot as an earlier cycle left it: it holds the node objects.
NodeBook == [gen |-> 1, orders |-> NodePool]

\* What dlob.init of a cycle finds beside the calls: nothing, an order, or
\* a node without userAccount.
NodeSnapshots ==
    { {},
      {MkNode(User(1), 1, 1, FillIx(<<Key(1), Key(2)>>, 18))},
      {MkNode(NoUser, 3, 1, FillIx(<<Key(4)>>, 18))} }

\* A step of invocation i of tryFill beside the calls: its dlob.init finds
\* one of NodeSnapshots, and getTransaction finds the transaction at the
\* first attempt.
NodeCycleStep(i) ==
    /\ CycleStep(i)
    /\ (pc[i] = "rebuildInit" /\ pc'[i] = "selectAcquire")
          => dlob'.orders \in NodeSnapshots
    /\ (pc[i] = "fetch" /\ pc'[i] = "fetchSleep") => inv'[i].tx = "tx"

\* What fillOrder may reject with, as getErrorMessage reads it.
ErrorMessages == {"OrderDoesNotExist", "OrderNotTriggerable", "undefined"}

\* A call's locals and what it has done so far.
CallInit ==
    [node |-> NullRef,         \* nodeToFill, a reference
     resolved |-> FALSE,       \* getNodeFillInfo has resolved
     submitted |-> 0,          \* calls of clearingHouse.fillOrder
     failed |-> FALSE,         \* fillOrder rejected
     errorMessage |-> "none",
     throttledAt |-> -1,       \* Date.now() of its throttledNodes.set
     removed |-> FALSE,        \* its dlob.remove has run
     raised |-> "none"]        \* the error the call rejected with

\* The test of the catch block: the order is removed from the snapshot.
RemovesOnError(errorMessage) == errorMessage = "OrderDoesNotExist"

\* nodeToFill.node.haveFilled = false, written to the object: the snapshot
\* that holds the object shows the write; a snapshot that a later cycle has
\* built holds objects of its own.
MarkNotFilled(book, node) ==
    IF book.gen # NodeBook.gen THEN book
    ELSE [book EXCEPT !.orders =
            {IF getNodeToFillSignature(n) = getNodeToFillSignature(node)
             THEN [n EXCEPT !.haveFilled = FALSE] ELSE n : n \in @}]

InitNode ==
    /\ PackIdle
    /\ ReconIdle
    /\ ThrottleIdle
    /\ SizeIdle
    /\ pc = [i \in Inv |-> "idle"]
    /\ outcome = [i \in Inv |-> "none"]
    /\ inv = [i \in Inv |-> InvInit]
    /\ periodicTaskMutex = FALSE
    /\ dlobMutex = FALSE
    /\ dlob = NodeBook
    /\ throttledNodes = EmptyThrottle
    /\ now = 0
    /\ mutexBusyCount = 0
    /\ dryRun \in BOOLEAN
    /\ npc = [c \in Calls |-> "idle"]
    /\ nloc = [c \in Calls |-> CallInit]
    /\ nheap = [r \in NodeRefs |-> NodeObject(r)]

\* tryFillNode(nodeToFill) is called: on null it logs and returns; it logs
\* the node, which throws on a node without userAccount; then it calls
\* getNodeFillInfo, which runs to its first await.
NodeCall(c) ==
    /\ npc[c] = "idle"
    /\ \A d \in Calls : d < c => npc[d] # "idle"
    /\ \E r \in NodeRefs \cup {NullRef} :
          IF r = NullRef
          THEN /\ npc' = [npc EXCEPT ![c] = "done"]
               /\ UNCHANGED nloc
          ELSE IF ~HasUserAccount(nheap[r])
          THEN /\ npc' = [npc EXCEPT ![c] = "done"]
               /\ nloc' = [nloc EXCEPT ![c].node = r,
                                       ![c].raised = "TypeError"]
          ELSE /\ npc' = [npc EXCEPT ![c] = FillInfoStart(nheap[r])]
               /\ nloc' = [nloc EXCEPT ![c].node = r]
    /\ UNCHANGED <<dryRun, nheap, packVars, reconVars, cycleVars, throttleVars,
                   sizeVars>>

\* A lookup of getNodeFillInfo resolves: the call goes to the next lookup,
\* or getNodeFillInfo returns: with dryRun the call returns; otherwise it
\* calls fillOrder and awaits it.
NodeFillInfoDone(c) ==
    /\ npc[c] \in PackLookupLocs
    /\ LET next == FillInfoNext(npc[c], nheap[nloc[c].node])
       IN  IF next \in PackLookupLocs
           THEN /\ npc' = [npc EXCEPT ![c] = next]
                /\ UNCHANGED nloc
           ELSE IF next = "TypeError"
           THEN /\ npc' = [npc EXCEPT ![c] = "done"]
                /\ nloc' = [nloc EXCEPT ![c].raised = "TypeError"]
           ELSE IF dryRun
           THEN /\ npc' = [npc EXCEPT ![c] = "done"]
                /\ nloc' = [nloc EXCEPT ![c].resolved = TRUE]
           ELSE /\ npc' = [npc EXCEPT ![c] = "fillOrder"]
                /\ nloc' = [nloc EXCEPT ![c].resolved = TRUE,
                                        ![c].submitted = @ + 1]
    /\ UNCHANGED <<dryRun, nheap, packVars, reconVars, cycleVars, throttleVars,
                   sizeVars>>

\* A lookup of getNodeFillInfo rejects: the call rejects with its error.
NodeFillInfoFail(c) ==
    /\ npc[c] \in PackLookupLocs
    /\ npc' = [npc EXCEPT ![c] = "done"]
    /\ nloc' = [nloc EXCEPT ![c].raised = "fillInfoError"]
    /\ UNCHANGED <<dryRun, nheap, packVars, reconVars, cycleVars, throttleVars,
                   sizeVars>>

\* fillOrder resolves: the fill is reported and the call returns txSig.
NodeFillOk(c) ==
    /\ npc[c] = "fillOrder"
    /\ npc' = [npc EXCEPT ![c] = "done"]
    /\ UNCHANGED <<nloc, dryRun, nheap, packVars, reconVars, cycleVars,
                   throttleVars, sizeVars>>

\* fillOrder rejects: the catch block marks the node object, records the
\* attempt and, for an order that does not exist, asks for the snapshot
\* gate; otherwise the call returns.
NodeFillFail(c) ==
    /\ npc[c] = "fillOrder"
    /\ \E errorMessage \in ErrorMessages :
          /\ nloc' = [nloc EXCEPT ![c].failed = TRUE,
                                  ![c].errorMessage = errorMessage,
                                  ![c].throttledAt = now]
          /\ npc' = [npc EXCEPT ![c] =
                       IF RemovesOnError(errorMessage)
                       THEN "removeAcquire" ELSE "done"]
    /\ nheap' = [nheap EXCEPT ![nloc[c].node].haveFilled = FALSE]
    /\ dlob' = MarkNotFilled(dlob, nheap[nloc[c].node])
    /\ throttledNodes' =
          ThrottleSet(throttledNodes,
                      getNodeToFillSignature(nheap[nloc[c].node]), now)
    /\ UNCHANGED <<dryRun, pc, outcome, inv, periodicTaskMutex, dlobMutex,
                   now, mutexBusyCount, packVars, reconVars, throttleVars, sizeVars>>

\* The wait of the removal for the snapshot gate, held by the rebuild of an
\* invocation of tryFill, exceeds the timeout: the acquisition rejects with
\* dlobMutexError inside the catch block, and the call rejects with it.
NodeGateTimeout(c) ==
    /\ npc[c] = "removeAcquire"
    /\ dlobMutex
    /\ \E j \in Inv : HolderAwaits(pc[j])
    /\ npc' = [npc EXCEPT ![c] = "done"]
    /\ nloc' = [nloc EXCEPT ![c].raised = "dlobMutexError"]
    /\ UNCHANGED <<dryRun, nheap, packVars, reconVars, cycleVars, throttleVars,
                   sizeVars>>

\* The removal takes the snapshot gate.
NodeRemoveAcquire(c) ==
    /\ npc[c] = "removeAcquire"
    /\ SnapshotGateAdmits(dlobMutex)
    /\ dlobMutex' = TRUE
    /\ npc' = [npc EXCEPT ![c] = "removeBody"]
    /\ UNCHANGED <<nloc, dryRun, nheap, pc, outcome, inv, periodicTaskMutex, dlob,
                   throttledNodes, now, mutexBusyCount, packVars, reconVars,
                   throttleVars, sizeVars>>

\* Under the gate: this.dlob.remove for the node; the gate is released and
\* the call returns.
RemoveUnderGate(c) ==
    /\ npc[c] = "removeBody"
    /\ dlob' = DlobRemove(dlob, nheap[nloc[c].node])
    /\ dlobMutex' = SnapshotGateAfterBody(FALSE)
    /\ nloc' = [nloc EXCEPT ![c].removed = TRUE]
    /\ npc' = [npc EXCEPT ![c] = "done"]
    /\ UNCHANGED <<dryRun, nheap, pc, outcome, inv, periodicTaskMutex,
                   throttledNodes, now, mutexBusyCount, packVars, reconVars,
                   throttleVars, sizeVars>>

\* Time passes.
NodeTick ==
    /\ now < MaxTime
    /\ now' = now + 1
    /\ UNCHANGED <<pc, outcome, inv, periodicTaskMutex, dlobMutex, dlob,
                   throttledNodes, mutexBusyCount, packVars, reconVars, sideVars>>

NextNode ==
    \/ \E c \in Calls :
          \/ NodeCall(c)
          \/ NodeFillInfoDone(c)
          \/ NodeFillInfoFail(c)
          \/ NodeFillOk(c)
          \/ NodeFillFail(c)
          \/ NodeRemoveAcquire(c)
          \/ RemoveUnderGate(c)
          \/ NodeGateTimeout(c)
    \/ \E i \in Inv : NodeCycleStep(i)
    \/ NodeTick

SpecNode == InitNode /\ [][NextNode]_vars

\* The call has gone past the dryRun test.
PastDryRun(c) ==
    \/ npc[c] \in {"fillOrder", "removeAcquire", "removeBody"}
    \/ npc[c] = "done" /\ nloc[c].resolved

\* C16: with dryRun, a call of tryFillNode submits nothing and its steps
\* leave throttledNodes and the snapshot alone; otherwise a call whose fill
\* information has resolved submits exactly one fillOrder, and when that
\* fails the node is marked as not filled, an attempt is put on record
\* under its signature, the order is removed from the snapshot, under the
\* gate, if and only if the error reads OrderDoesNotExist, and the call
\* does not reject.
C16_SingleCandidatePath ==
    [][ \A c \in Calls :
          LET l == nloc'[c]
              sig == getNodeToFillSignature(nheap[l.node])
          IN  /\ dryRun =>
                    /\ l.submitted = 0
                    /\ npc'[c] # npc[c] =>
                          throttledNodes' = throttledNodes /\ dlob' = dlob
              /\ (~dryRun /\ PastDryRun(c)') => l.submitted = 1
              /\ ~PastDryRun(c)' => l.submitted = 0
              /\ (l.failed /\ ~nloc[c].failed) =>
                    /\ sig \in DOMAIN throttledNodes'
                    /\ throttledNodes'[sig] = now
              /\ l.failed =>
                    /\ ~nheap'[l.node].haveFilled
                    /\ l.raised = "none"
                    /\ (npc'[c] \in {"removeAcquire", "removeBody"} \/ l.removed)
                          <=> l.errorMessage = "OrderDoesNotExist"
                    /\ (npc'[c] = "done" /\ l.errorMessage = "OrderDoesNotExist")
                          => l.removed
              /\ ~l.failed =>
                    ~l.removed /\ npc'[c] \notin {"removeAcquire", "removeBody"}
              /\ (l.removed /\ ~nloc[c].removed) =>
                    /\ npc[c] = "removeBody" /\ dlobMutex
                    /\ dlob' = DlobRemove(dlob, nheap[l.node])
      ]_vars

\* ---------------------------------------------------------------- C13
\* The callers whose code is inside a callback of dlobMutex.runExclusive:
\* invocations of tryFill, calls of tryFillNode, and the reconciliation.
GateHolders ==
    {<<"tryFill", i>> : i \in {k \in Inv :
        pc[k] \in {"rebuildInit", "selectBody", "removeBody"}}}
    \cup {<<"tryFillNode", c>> : c \in {d \in DOMAIN npc : npc[d] = "removeBody"}}
    \cup (IF rphase = "removeBody" THEN {<<"processBulkFillTxLogs", 1>>} ELSE {})

\* Where a caller is.
CallerLoc(h) ==
    IF h[1] = "tryFill" THEN pc[h[2]]
    ELSE IF h[1] = "tryFillNode" THEN npc[h[2]]
    ELSE rphase

\* The snapshot with the haveFilled marks of its nodes left out: what a
\* rebuild replaces and a removal shrinks.
SnapshotOrders(book) ==
    [book EXCEPT !.orders = {[n EXCEPT !.haveFilled = FALSE] : n \in @}]

\* C13: the snapshot gate has at most one holder, it is locked exactly
\* while it has one, and every step in which findNodesToFill is read, or
\* this.dlob is replaced, or an order is removed from it, by a cycle or by a
\* call of tryFillNode, is a step of its single holder; so a removal never
\* interleaves with a rebuild or with a matching read.
C13_SnapshotUnderGate ==
    [][ /\ Cardinality(GateHolders) <= 1
        /\ (GateHolders # {}) <=> dlobMutex
        /\ \A i \in Inv :
              inv'[i].fillableNodes \notin {inv[i].fillableNodes, <<>>}
                 => GateHolders = {<<"tryFill", i>>} /\ pc[i] = "selectBody"
        /\ SnapshotOrders(dlob') # SnapshotOrders(dlob) =>
              \E h \in GateHolders \cup GateHolders' :
                 /\ CallerLoc(h)' # CallerLoc(h)
                 /\ \/ GateHolders = {h}
                    \/ GateHolders = {} /\ GateHolders' = {h}
        /\ \A c \in DOMAIN nloc :
              (nloc'[c].removed /\ ~nloc[c].removed)
                 => /\ GateHolders = {<<"tryFillNode", c>>}
                    /\ dlob' = DlobRemove(dlob, nheap[nloc[c].node])
      ]_vars

\* The removal of a call of tryFillNode holds the gate, the order to remove
\* is in the snapshot, and the rebuild of a cycle waits for the gate.
C13_Witness ==
    \E c \in Calls, j \in Inv :
       /\ npc[c] = "removeBody"
       /\ pc[j] = "rebuildAcquire"
       /\ dlobMutex
       /\ nheap[nloc[c].node] \in dlob.orders

\* ---------------------------------------------------------------- C17
\* The signature of a node that has no userAccount.
SentinelSignature == getNodeToFillSignature(MkNode(NoUser, 0, 1, FillIx(<<>>, 0)))

\* C17: throttledNodes never holds an entry under the sentinel signature.
C17_SentinelNeverThrottled == SentinelSignature \notin DOMAIN throttledNodes

\* A cycle found a node without userAccount, the filter kept it and the
\* batch ended on it with a TypeError; tryFillNode was called with a node
\* without userAccount and rejected; attempts of other nodes are on record.
C17_Witness ==
    \E i \in Inv, c \in Calls :
       /\ pc[i] = "done"
       /\ inv[i].filtered
       /\ inv[i].raised = "TypeError"
       /\ inv[i].cause = "none"
       /\ \E n \in dlob.orders : ~HasUserAccount(n)
       /\ dlob.gen > NodeBook.gen
       /\ npc[c] = "done"
       /\ nloc[c].node # NullRef
       /\ ~HasUserAccount(nheap[nloc[c].node])
       /\ nloc[c].raised = "TypeError"
       /\ DOMAIN throttledNodes # {}

\* ---------------------------------------------------------------- C18
\* The lines of the log read so far, the null entries left out.
ReadLines == SelectSeq(SubSeq(rlog, 1, rpos - 1), LAMBDA l : ~l.null)

\* The log with its null entries left out.
NonNullLines == SelectSeq(rlog, LAMBDA l : ~l.null)

\* Apart from null entries the log is made of marker/outcome pairs, one
\* pair per packed node at most.
IsPairsLogWithNulls ==
    /\ Len(NonNullLines) <= 2 * Len(rnodes)
    /\ \A k \in DOMAIN NonNullLines :
          IF k % 2 = 1 THEN NonNullLines[k] = FillOrderLog
          ELSE NonNullLines[k] \in OutcomePool

\* The nodes among the first K whose outcome line, in the lines read so
\* far, contains phrase, in order.
RECURSIVE NodesOfOutcome(_, _)
NodesOfOutcome(K, phrase) ==
    IF K = 0 THEN <<>>
    ELSE NodesOfOutcome(K - 1, phrase)
           \o (IF phrase \in ReadLines[2 * K].has THEN <<rnodes[K]>> ELSE <<>>)

\* C18: at every point of the reconciliation of a log made of
\* marker/outcome pairs with null entries anywhere among them, the
\* removals are exactly the candidates whose outcome read "Order does not
\* exist", the throttle writes exactly those whose outcome read "Amm cant
\* fulfill order", no candidate is in both, a candidate whose outcome was
\* a success or an unparsed line is in neither, and the walk has not
\* stopped: every stale outcome issues its removal, and a null or unparsed
\* line shifts no later pair.
C18_OutcomeEffectsLocal ==
    IsPairsLogWithNulls =>
        LET K == Len(ReadLines) \div 2
            stale == NodesOfOutcome(K, "Order does not exist")
            rejected == NodesOfOutcome(K, "Amm cant fulfill order")
        IN  /\ rphase \notin {"threw", "gateTimeout"}
            /\ rremovals = stale
            /\ rthrottles = SignaturesOf(rejected)
            /\ SeqRange(stale) \cap SeqRange(rejected) = {}
            /\ \A k \in 1..K :
                  ReadLines[2 * k] \in {EventDataLog, ShortLog} =>
                     rnodes[k] \notin SeqRange(stale) \cup SeqRange(rejected)
            /\ rw.successCount =
                  Cardinality({k \in 1..K : ReadLines[2 * k] = EventDataLog})

\* ---------------------------------------------------------------- C19
\* C19: a removal made by the reconciliation of a batch changes only the
\* DLOB instance that the nodes of the batch were read from, never one
\* that a later cycle has built.
C19_RemovalHitsOwnSnapshot ==
    [][ \A i \in Inv :
          (pc[i] = "removeBody" /\ pc'[i] # "removeBody" /\ dlob' # dlob)
             => inv[i].snapshot = dlob.gen
      ]_vars
====
